---- MODULE Spec2Model ----
(***************************************************************************)
(* A model of the LSH nearest-neighbour notebook (src/unnamed/part_000):   *)
(* semi_optimized_exhaustive_search, compute_recall_at_k,                  *)
(* generate_random_hash_functions, hash_vector, custom_indexing_algorithm  *)
(* and custom_index_search, driven in the order of the notebook's cells.   *)
(*                                                                         *)
(* Vectors are sequences of integers (the spec's example collection is     *)
(* scaled by 10).  Index ids are 0-based as in the code; position i+1 of a *)
(* sequence holds id i.  np.linalg.norm is sqrt(sum of squares); the code  *)
(* only ever orders norms (np.argsort), and sqrt is strictly increasing,   *)
(* so the model orders the sums of squares.                                *)
(***************************************************************************)
EXTENDS Integers, Sequences, FiniteSets, TLC

VARIABLES
    index_vectors,      \* the index collection, a sequence of vectors
    query_vectors,      \* the query batch
    dim,                \* index_vectors.shape[1], the argument of the generator
    k,                  \* the notebook's k
    argsort_ties,       \* how this build's np.argsort orders equal keys
    np_ragged,          \* what this numpy does with an inhomogeneous np.array
    rng,                \* the state of the ambient np.random generator
    hash_functions,     \* result of generate_random_hash_functions
    gt_nn,              \* result of semi_optimized_exhaustive_search
    hash_tables,        \* the local hash_tables of a running build
    build_i,            \* the next position of the build's enumerate loop
    custom_index,       \* result of custom_indexing_algorithm
    custom_index_ann,   \* result of custom_index_search
    recall,             \* result of compute_recall_at_k, with its arguments
    prev_index,         \* custom_index of the previous run of the cells
    prev_ann,           \* custom_index_ann of the previous run of the cells
    run,                \* how many times cells 16..18 were started
    pc                  \* the cell (or point inside a call) to run next

vars == <<index_vectors, query_vectors, dim, k, argsort_ties, np_ragged, rng,
          hash_functions, gt_nn, hash_tables, build_i, custom_index,
          custom_index_ann, recall, prev_index, prev_ann, run, pc>>

\* ------------------------------------------------------------------ bounds

\* k ranges over -1..MaxK: the non-positive values are the ones the code
\* never rejects.
MaxK == 3
\* The generator state is SeedBits bits wide.
SeedBits == 5
\* Cells 16..18 (build, search, recall) are run at most MaxRuns times.
MaxRuns == 2
\* The generator states the stand-alone generator runs start from.
GenSeeds == 4

KValues == -1..MaxK
RngStates == 0..(2^SeedBits - 1)

\* ------------------------------------------------------- program constants

DimThreshold == 150
NumHashesLow == 7
NumHashesHigh == 12
\* dim**0.65 and dim**0.6 as exact fractions 13/20 and 3/5
ExpLowNum == 13
ExpLowDen == 20
ExpHighNum == 3
ExpHighDen == 5
MaxCandidatesLow == 1000
MaxCandidatesHigh == 1400
RoundDigits == 3

\* ----------------------------------------------------------------- helpers

Min(a, b) == IF a <= b THEN a ELSE b
Max(a, b) == IF a >= b THEN a ELSE b

\* s[:n] of Python: the first n elements, or all but the last -n when n < 0.
PySlice(s, n) ==
    SubSeq(s, 1, IF n >= 0 THEN Min(n, Len(s)) ELSE Max(Len(s) + n, 0))

\* set(s) of a sequence
SetOf(s) == {s[i] : i \in DOMAIN s}

\* sum(s), added up by halves
RECURSIVE SumSeq(_)
SumSeq(s) ==
    IF Len(s) = 0 THEN 0
    ELSE IF Len(s) = 1 THEN s[1]
    ELSE LET half == Len(s) \div 2
         IN SumSeq(SubSeq(s, 1, half)) + SumSeq(SubSeq(s, half + 1, Len(s)))

\* The square of np.linalg.norm(a - b).
SqDist(a, b) == SumSeq([i \in DOMAIN a |-> (a[i] - b[i]) * (a[i] - b[i])])

\* np.argsort(d): the positions of d (1-based here) in ascending order of
\* key.  The default kind is not stable: the order of equal keys is fixed by
\* the build (argsort_ties), the same on every call.
\* Mutant of ArgBefore: the keys are ordered descending.
ArgBeforeDescending(d, i, j) ==
    \/ d[i] > d[j]
    \/ d[i] = d[j] /\ (IF argsort_ties = "first" THEN i < j ELSE i > j)

ArgBefore(d, i, j) ==
    \/ d[i] < d[j]
    \/ d[i] = d[j] /\ (IF argsort_ties = "first" THEN i < j ELSE i > j)

\* (The number of positions before each position is computed once, as the
\* element of a singleton set, and then inverted.)
ArgSort(d) ==
    LET Ranked(before) ==
            [r \in 1..Len(d) |-> CHOOSE i \in DOMAIN d : before[i] = r - 1]
    IN CHOOSE order \in
           {Ranked(before) : before \in
               {[i \in DOMAIN d |->
                   Cardinality({j \in DOMAIN d : ArgBefore(d, j, i)})]}} :
           TRUE

\* list(s) of a set of small ints: CPython iterates them in ascending order.
ListOfSet(S) ==
    LET Listed(below) ==
            [r \in 1..Cardinality(S) |-> CHOOSE x \in S : below[x] = r - 1]
    IN CHOOSE l \in
           {Listed(below) : below \in
               {[x \in S |-> Cardinality({y \in S : y < x})]}} :
           TRUE

\* ------------------------------------------------ exhaustive search (39-57)

\* distances = np.linalg.norm(index_vectors - query_vec, axis=1)
Distances(vectors, query_vec) ==
    [i \in DOMAIN vectors |-> SqDist(vectors[i], query_vec)]

\* Mutant of NearestIds: the nearest vector is skipped, as if it were the
\* query itself.
NearestIdsSkipNearest(vectors, query_vec, kk) ==
    LET sorted == ArgSort(Distances(vectors, query_vec))
        order == PySlice(IF sorted = <<>> THEN <<>> ELSE Tail(sorted), kk)
    IN [r \in DOMAIN order |-> order[r] - 1]

\* list(np.argsort(distances)[:k]), as 0-based ids
NearestIds(vectors, query_vec, kk) ==
    LET order == PySlice(ArgSort(Distances(vectors, query_vec)), kk)
    IN [r \in DOMAIN order |-> order[r] - 1]

semi_optimized_exhaustive_search(vectors, queries, kk) ==
    [q \in DOMAIN queries |-> NearestIds(vectors, queries[q], kk)]

\* ------------------------------------------------ recall evaluator (163-177)

\* round(n / d, ndigits) for d > 0, in units of 10^-ndigits: Python rounds a
\* tie to the even neighbour.
RoundHalfEven(n, d) ==
    LET q == n \div d
        r == n % d
    IN IF 2 * r < d THEN q
       ELSE IF 2 * r > d THEN q + 1
       ELSE IF q % 2 = 0 THEN q ELSE q + 1

\* round(total / den, 3) of a total/den with den # 0, in thousandths
PyRound(total, den) ==
    IF den > 0 THEN RoundHalfEven(total * 10^RoundDigits, den)
    ELSE RoundHalfEven((0 - total) * 10^RoundDigits, 0 - den)

\* Mutant of Intersections: query i is compared with the ground truth of
\* another query.
IntersectionsMisaligned(nn_gt, ann) ==
    [i \in DOMAIN ann |->
        Cardinality(SetOf(ann[i]) \cap SetOf(nn_gt[Len(ann) + 1 - i]))]

\* Mutant of Intersections: every position of ann[i] whose id is in nn_gt[i]
\* is counted, so a repeated id counts more than once.
IntersectionsCounted(nn_gt, ann) ==
    [i \in DOMAIN ann |->
        Cardinality({p \in DOMAIN ann[i] : ann[i][p] \in SetOf(nn_gt[i])})]

\* len(set(ann[i]) & set(nn_gt[i])) for every i in range(len(ann))
Intersections(nn_gt, ann) ==
    [i \in DOMAIN ann |-> Cardinality(SetOf(ann[i]) \cap SetOf(nn_gt[i]))]

\* compute_recall_at_k.  The comprehension reads nn_gt[i] before it divides
\* by k, and the mean divides by len(ann) last.  inter[i] / k is recall_i;
\* score is the returned value in thousandths.
compute_recall_at_k(nn_gt, ann, kk) ==
    LET base == [st |-> "error", err |-> "", nn_gt |-> nn_gt, ann |-> ann,
                 k |-> kk, inter |-> <<>>, score |-> 0]
    IN IF Len(ann) > 0 /\ Len(nn_gt) = 0
           THEN [base EXCEPT !.err = "IndexError"]
       ELSE IF Len(ann) > 0 /\ kk = 0
           THEN [base EXCEPT !.err = "ZeroDivisionError"]
       ELSE IF Len(ann) > Len(nn_gt)
           THEN [base EXCEPT !.err = "IndexError"]
       ELSE IF Len(ann) = 0
           THEN [base EXCEPT !.err = "ZeroDivisionError"]
       ELSE LET inter == Intersections(nn_gt, ann)
            IN [base EXCEPT !.st = "ok", !.inter = inter,
                            !.score = PyRound(SumSeq(inter), kk * Len(ann))]

\* ------------------------------------------- hash family generator (343-358)

\* Natural numbers beyond 32 bits: little-endian limbs, zero is <<>>.
Limb == 10^4

RECURSIVE BigMulSmall(_, _, _)
BigMulSmall(a, m, carry) ==
    IF a = <<>>
    THEN IF carry = 0 THEN <<>>
         ELSE <<carry % Limb>> \o BigMulSmall(<<>>, m, carry \div Limb)
    ELSE LET t == Head(a) * m + carry
         IN <<t % Limb>> \o BigMulSmall(Tail(a), m, t \div Limb)

RECURSIVE BigPow(_, _)
BigPow(b, e) ==
    IF e = 0 THEN <<1>>
    ELSE IF b = 0 THEN <<>>
    ELSE BigMulSmall(BigPow(b, e - 1), b, 0)

RECURSIVE BigLess(_, _)
BigLess(a, b) ==
    IF Len(a) # Len(b) THEN Len(a) < Len(b)
    ELSE IF a = <<>> THEN FALSE
    ELSE IF a[Len(a)] # b[Len(b)] THEN a[Len(a)] < b[Len(b)]
    ELSE BigLess(SubSeq(a, 1, Len(a) - 1), SubSeq(b, 1, Len(b) - 1))

\* int(d ** (num/den)) for d >= 0: the largest h with h^den <= d^num, or,
\* when below is set, with h^den < d^num.
IntPow(d, num, den, below) ==
    LET x == BigPow(d, num)
        fits(h) == IF below THEN BigLess(BigPow(h, den), x)
                   ELSE ~BigLess(x, BigPow(h, den))
    IN CHOOSE h \in 0..d : fits(h) /\ ~fits(h + 1)

NumHashes(d) == IF d < DimThreshold THEN NumHashesLow ELSE NumHashesHigh

\* Mutant of HashSize: the two exponents are swapped.
HashSizeSwapped(d) ==
    IF d < DimThreshold THEN IntPow(d, ExpHighNum, ExpHighDen, FALSE)
    ELSE IntPow(d, ExpLowNum, ExpLowDen, FALSE)

\* hash_size.  The double 0.65 lies above 13/20 and the double 0.6 below 3/5
\* (0.59999999999999997...), so dim**0.6 of a perfect fifth power (243, 1024)
\* comes out just under the integer and int() drops to the one below; on
\* every other dim both are the exact floor.
HashSize(d) ==
    IF d < DimThreshold THEN IntPow(d, ExpLowNum, ExpLowDen, FALSE)
    ELSE IntPow(d, ExpHighNum, ExpHighDen, TRUE)

\* The n-th value (n >= 0) np.random.randn draws from generator state s: a
\* sign read off the state's bits.
Randn(s, n) == IF (s \div 2^(n % SeedBits)) % 2 = 1 THEN 1 ELSE -1

\* The generator state after a call.
NextRng(s) == (s + 1) % (2^SeedBits)

\* [np.random.randn(hash_size, dim) for _ in range(num_hashes)]
RandomMatrices(d, s) ==
    LET h == HashSize(d)
    IN [f \in 1..NumHashes(d) |->
          [r \in 1..h |->
             [c \in 1..d |-> Randn(s, ((f - 1) * h + (r - 1)) * d + (c - 1))]]]

\* generate_random_hash_functions(dim) from generator state s.  A negative
\* dim makes dim**0.65 a complex number, which int() refuses (TypeError);
\* nothing checks dim, so dim = 0 returns matrices of shape (0, 0).
generate_random_hash_functions(d, s) ==
    IF d < 0 THEN [st |-> "error", err |-> "TypeError", value |-> <<>>]
    ELSE [st |-> "ok", err |-> "", value |-> RandomMatrices(d, s)]

\* ------------------------------------------------------ hash_vector (361-371)

\* np.dot(hash_function, vector)
Projection(vector, hash_function) ==
    [r \in DOMAIN hash_function |->
        SumSeq([c \in DOMAIN vector |-> hash_function[r][c] * vector[c]])]

\* tuple((projection > 0).astype(int))
hash_vector(vector, hash_function) ==
    LET projection == Projection(vector, hash_function)
    IN [r \in DOMAIN projection |-> IF projection[r] > 0 THEN 1 ELSE 0]

\* ------------------------------------- custom_indexing_algorithm (382-398)

\* Mutant of EmptyTables: the tables of the previous call are kept.
StaleTables(functions) ==
    IF DOMAIN hash_tables = DOMAIN functions THEN hash_tables
    ELSE [j \in DOMAIN functions |-> <<>>]

\* hash_tables = [{} for _ in hash_functions]
EmptyTables(functions) == [j \in DOMAIN functions |-> <<>>]

\* Mutant of TableInsert: the bucket is created anew on every insert.
TableInsertOverwrite(table, hash_key, i) ==
    [key \in DOMAIN table \cup {hash_key} |->
        IF key = hash_key THEN <<i>> ELSE table[key]]

\* if hash_key not in table: table[hash_key] = []; table[hash_key].append(i)
TableInsert(table, hash_key, i) ==
    [key \in DOMAIN table \cup {hash_key} |->
        IF key = hash_key
        THEN (IF key \in DOMAIN table THEN Append(table[key], i) ELSE <<i>>)
        ELSE table[key]]

\* The body of the enumerate loop for vector id i: one insert per table.
IndexVector(tables, functions, i, vector) ==
    [j \in DOMAIN tables |->
        IF j \in DOMAIN functions
        THEN TableInsert(tables[j], hash_vector(vector, functions[j]), i)
        ELSE tables[j]]

\* ------------------------------------------- custom_index_search (401-430)

\* index_vectors.shape[1]
Shape1(vectors) == IF vectors = <<>> THEN dim ELSE Len(vectors[1])

\* Mutant of MaxCandidates: the two limits change places.
MaxCandidatesSwapped(vectors) ==
    IF Shape1(vectors) < DimThreshold THEN MaxCandidatesHigh
    ELSE MaxCandidatesLow

\* max_candidates = 1000 if index_vectors.shape[1] < 150 else 1400
MaxCandidates(vectors) ==
    IF Shape1(vectors) < DimThreshold THEN MaxCandidatesLow
    ELSE MaxCandidatesHigh

\* Mutant of TableCandidates: a table without the query's key falls back to
\* all the ids it holds.
TableCandidatesFallback(query_vec, vectors, functions, tables, j) ==
    LET hash_key == hash_vector(query_vec, functions[j])
    IN IF hash_key \in DOMAIN tables[j]
       THEN SetOf(PySlice(tables[j][hash_key], MaxCandidates(vectors)))
       ELSE UNION {SetOf(tables[j][key]) : key \in DOMAIN tables[j]}

\* What table j adds to candidate_indices: candidates[:max_candidates] of
\* the bucket under the query's key, nothing when the key is absent.
TableCandidates(query_vec, vectors, functions, tables, j) ==
    LET hash_key == hash_vector(query_vec, functions[j])
    IN IF hash_key \in DOMAIN tables[j]
       THEN SetOf(PySlice(tables[j][hash_key], MaxCandidates(vectors)))
       ELSE {}

\* candidate_indices after the loop over zip(hash_functions, hash_tables)
CandidateSet(query_vec, vectors, functions, tables) ==
    UNION {TableCandidates(query_vec, vectors, functions, tables, j) :
              j \in 1..Min(Len(functions), Len(tables))}

\* Mutant of RankCandidates: the first k candidates are returned as listed,
\* without ranking them by distance.
RankCandidatesUnranked(candidate_indices, vectors, query_vec, kk) ==
    PySlice(candidate_indices, kk)

\* np.array(candidate_indices)[np.argsort(distances)[:k]]
RankCandidates(candidate_indices, vectors, query_vec, kk) ==
    LET distances ==
            [c \in DOMAIN candidate_indices |->
                SqDist(vectors[candidate_indices[c] + 1], query_vec)]
        order == PySlice(ArgSort(distances), kk)
    IN [r \in DOMAIN order |-> candidate_indices[order[r]]]

\* Mutant of QueryResult: candidate_indices is a list every table extends,
\* so an id of several buckets is listed several times.
QueryResultListed(query_vec, vectors, functions, tables, kk) ==
    LET RECURSIVE Gather(_)
        Gather(j) ==
            IF j = 0 THEN <<>>
            ELSE Gather(j - 1) \o ListOfSet(TableCandidates(
                     query_vec, vectors, functions, tables, j))
        candidate_indices == Gather(Min(Len(functions), Len(tables)))
    IN IF candidate_indices = <<>> THEN <<>>
       ELSE RankCandidates(candidate_indices, vectors, query_vec, kk)

\* The row appended to result_indices for one query.
QueryResult(query_vec, vectors, functions, tables, kk) ==
    LET candidate_indices == CandidateSet(query_vec, vectors, functions, tables)
    IN IF candidate_indices = {} THEN <<>>
       ELSE RankCandidates(ListOfSet(candidate_indices), vectors, query_vec, kk)

ResultRows(queries, vectors, functions, tables, kk) ==
    [q \in DOMAIN queries |->
        QueryResult(queries[q], vectors, functions, tables, kk)]

\* np.array(rows) of rows of unequal length: an array of objects before
\* numpy 1.24, a ValueError from then on.
Inhomogeneous(rows) == Cardinality({Len(rows[q]) : q \in DOMAIN rows}) > 1

custom_index_search(queries, vectors, functions, tables, kk) ==
    LET rows == ResultRows(queries, vectors, functions, tables, kk)
    IN IF Inhomogeneous(rows) /\ np_ragged = "ValueError"
       THEN [st |-> "error", err |-> "ValueError", value |-> <<>>]
       ELSE [st |-> "ok", err |-> "", value |-> rows]

\* ------------------------------------------------------------ the notebook

Unset == [st |-> "unset", err |-> "", value |-> <<>>]
NoRecall == [st |-> "unset", err |-> "", nn_gt |-> <<>>, ann |-> <<>>,
             k |-> 0, inter |-> <<>>, score |-> 0]

\* The collections the cells load (lines 447-449), as small integer data:
\* the spec's scenario scaled by 10; queries that collide with different
\* numbers of vectors; equidistant and duplicated vectors; an empty
\* collection; a collection no query need collide with; an empty batch; a
\* query that collides with the far vector in some tables and with the near
\* one in none, next to a query that collides with both.
Datasets ==
    { [index |-> << <<0, 0>>, <<100, 100>>, <<1, 1>> >>,
       query |-> << <<0, 0>> >>, shape1 |-> 2],
      [index |-> << <<1, 2>>, <<2, 1>>, <<3, 3>> >>,
       query |-> << <<0, 0>>, <<1, 1>> >>, shape1 |-> 2],
      [index |-> << <<1, 0>>, <<0, 1>>, <<-1, 0>>, <<1, 0>> >>,
       query |-> << <<0, 0>>, <<1, 0>> >>, shape1 |-> 2],
      [index |-> << >>,
       query |-> << <<0, 0>>, <<1, 1>> >>, shape1 |-> 2],
      [index |-> << <<1, 1>>, <<2, 3>> >>,
       query |-> << <<0, 0>> >>, shape1 |-> 2],
      [index |-> << <<1, 1>>, <<-2, 3>> >>,
       query |-> << >>, shape1 |-> 2],
      [index |-> << <<-1, 0>>, <<0, -100>> >>,
       query |-> << <<1, 0>>, <<0, 0>> >>, shape1 |-> 2] }

Init ==
    /\ \E ds \in Datasets :
          /\ index_vectors = ds.index
          /\ query_vectors = ds.query
          /\ dim = ds.shape1
    /\ k \in KValues
    /\ argsort_ties \in {"first", "last"}
    /\ np_ragged \in {"object", "ValueError"}
    /\ rng \in RngStates
    /\ hash_functions = Unset
    /\ gt_nn = Unset
    /\ hash_tables = <<>>
    /\ build_i = 0
    /\ custom_index = Unset
    /\ custom_index_ann = Unset
    /\ recall = NoRecall
    /\ prev_index = Unset
    /\ prev_ann = Unset
    /\ run = 0
    /\ pc = "cell14"

\* hash_functions = generate_random_hash_functions(dim)   (line 451)
Cell14 ==
    /\ pc = "cell14"
    /\ hash_functions' = generate_random_hash_functions(dim, rng)
    /\ rng' = NextRng(rng)
    /\ pc' = IF hash_functions'.st = "ok" THEN "cell15" ELSE "error"
    /\ UNCHANGED <<index_vectors, query_vectors, dim, k, argsort_ties,
                   np_ragged, gt_nn, hash_tables, build_i, custom_index,
                   custom_index_ann, recall, prev_index, prev_ann, run>>

\* gt_nn = semi_optimized_exhaustive_search(index_vectors, query_vectors, k)
Cell15 ==
    /\ pc = "cell15"
    /\ gt_nn' = [st |-> "ok", err |-> "",
                 value |-> semi_optimized_exhaustive_search(
                               index_vectors, query_vectors, k)]
    /\ pc' = "cell16"
    /\ UNCHANGED <<index_vectors, query_vectors, dim, k, argsort_ties,
                   np_ragged, rng, hash_functions, hash_tables, build_i,
                   custom_index, custom_index_ann, recall, prev_index,
                   prev_ann, run>>

\* custom_index = custom_indexing_algorithm(index_vectors, hash_functions):
\* the call starts with fresh tables (line 391) ...
BuildStart ==
    /\ pc = "cell16"
    /\ hash_tables' = EmptyTables(hash_functions.value)
    /\ build_i' = 0
    /\ run' = run + 1
    /\ pc' = "build"
    /\ UNCHANGED <<index_vectors, query_vectors, dim, k, argsort_ties,
                   np_ragged, rng, hash_functions, gt_nn, custom_index,
                   custom_index_ann, recall, prev_index, prev_ann>>

\* ... files one vector per iteration of the outer loop (392-397) ...
BuildStep ==
    /\ pc = "build"
    /\ build_i < Len(index_vectors)
    /\ hash_tables' = IndexVector(hash_tables, hash_functions.value, build_i,
                                  index_vectors[build_i + 1])
    /\ build_i' = build_i + 1
    /\ UNCHANGED <<index_vectors, query_vectors, dim, k, argsort_ties,
                   np_ragged, rng, hash_functions, gt_nn, custom_index,
                   custom_index_ann, recall, prev_index, prev_ann, run, pc>>

\* ... and returns them (398).
BuildReturn ==
    /\ pc = "build"
    /\ build_i = Len(index_vectors)
    /\ custom_index' = [st |-> "ok", err |-> "", value |-> hash_tables]
    /\ pc' = "cell17"
    /\ UNCHANGED <<index_vectors, query_vectors, dim, k, argsort_ties,
                   np_ragged, rng, hash_functions, gt_nn, hash_tables,
                   build_i, custom_index_ann, recall, prev_index, prev_ann,
                   run>>

\* custom_index_ann = custom_index_search(query_vectors, index_vectors,
\*                                        hash_functions, custom_index, k)
Cell17 ==
    /\ pc = "cell17"
    /\ custom_index_ann' =
           custom_index_search(query_vectors, index_vectors,
                               hash_functions.value, custom_index.value, k)
    /\ pc' = IF custom_index_ann'.st = "ok" THEN "cell18" ELSE "error"
    /\ UNCHANGED <<index_vectors, query_vectors, dim, k, argsort_ties,
                   np_ragged, rng, hash_functions, gt_nn, hash_tables,
                   build_i, custom_index, recall, prev_index, prev_ann, run>>

\* compute_recall_at_k(gt_nn, custom_index_ann, k), or the ground truth
\* scored against itself.
Cell18 ==
    /\ pc = "cell18"
    /\ \E ann \in {custom_index_ann.value, gt_nn.value} :
          recall' = compute_recall_at_k(gt_nn.value, ann, k)
    /\ pc' = "done"
    /\ UNCHANGED <<index_vectors, query_vectors, dim, k, argsort_ties,
                   np_ragged, rng, hash_functions, gt_nn, hash_tables,
                   build_i, custom_index, custom_index_ann, prev_index,
                   prev_ann, run>>

\* Cells 16..18 are run again on the same data and the same family.
Rerun ==
    /\ pc = "done"
    /\ run < MaxRuns
    /\ prev_index' = custom_index
    /\ prev_ann' = custom_index_ann
    /\ pc' = "cell16"
    /\ UNCHANGED <<index_vectors, query_vectors, dim, k, argsort_ties,
                   np_ragged, rng, hash_functions, gt_nn, hash_tables,
                   build_i, custom_index, custom_index_ann, recall, run>>

Next ==
    \/ Cell14
    \/ Cell15
    \/ BuildStart
    \/ BuildStep
    \/ BuildReturn
    \/ Cell17
    \/ Cell18
    \/ Rerun

Spec == Init /\ [][Next]_vars

\* ------------------------------------- the generator called on its own

\* The dims generate_random_hash_functions is called with on its own: the
\* invalid ones, small ones, both sides of the threshold, the spec's 100 and
\* 200, and a perfect fifth power.
GenDims == (-3..12) \cup {32, 100, 149, 150, 200, 243}

InitGen ==
    /\ index_vectors = <<>>
    /\ query_vectors = <<>>
    /\ dim \in GenDims
    /\ k = 1
    /\ argsort_ties = "first"
    /\ np_ragged = "ValueError"
    /\ rng \in 0..(GenSeeds - 1)
    /\ hash_functions = Unset
    /\ gt_nn = Unset
    /\ hash_tables = <<>>
    /\ build_i = 0
    /\ custom_index = Unset
    /\ custom_index_ann = Unset
    /\ recall = NoRecall
    /\ prev_index = Unset
    /\ prev_ann = Unset
    /\ run = 0
    /\ pc = "cell14"

SpecGen == InitGen /\ [][Cell14]_vars

\* ---------------------------------- the recall evaluator called on its own

\* Result batches handed to compute_recall_at_k directly: rows longer than
\* k, rows with a repeated id, empty rows, batches of 0 to 3 queries.
Batches ==
    { << <<0, 1, 2>> >>,
      << <<0, 1>>, <<2, 0>> >>,
      << <<0, 0, 1>> >>,
      << <<>> >>,
      << <<1>>, <<>> >>,
      << <<2>>, <<0>>, <<1>> >>,
      << >> }

InitRecall ==
    /\ index_vectors = <<>>
    /\ query_vectors = <<>>
    /\ dim = 0
    /\ k \in KValues
    /\ argsort_ties = "first"
    /\ np_ragged = "ValueError"
    /\ rng = 0
    /\ hash_functions = Unset
    /\ \E b \in Batches : gt_nn = [st |-> "given", err |-> "", value |-> b]
    /\ hash_tables = <<>>
    /\ build_i = 0
    /\ custom_index = Unset
    /\ \E b \in Batches :
          custom_index_ann = [st |-> "given", err |-> "", value |-> b]
    /\ recall = NoRecall
    /\ prev_index = Unset
    /\ prev_ann = Unset
    /\ run = 0
    /\ pc = "cell18"

SpecRecall == InitRecall /\ [][Cell18]_vars

\* ------------------------------------------------------------------ claims

\* Vocabulary of the claims.
NumVectors == Len(index_vectors)
NumQueries == Len(query_vectors)
\* The squared true distance of index id i to query q.
TrueDist(i, q) == SqDist(index_vectors[i + 1], query_vectors[q])
\* A row of ids is in non-decreasing order of true distance to query q.
Ascending(row, q) ==
    \A a, b \in DOMAIN row : a < b => TrueDist(row[a], q) <= TrueDist(row[b], q)
\* No two positions of a row hold the same id.
NoRepeat(row) == \A a, b \in DOMAIN row : a # b => row[a] # row[b]
\* The spec's scenario [[0,0],[10,10],[0.1,0.1]] with query [0,0], times 10.
Scenario ==
    /\ index_vectors = << <<0, 0>>, <<100, 100>>, <<1, 1>> >>
    /\ query_vectors = << <<0, 0>> >>

\* C1: for every collection of N vectors, query batch and k >= 1, the
\* exhaustive search returns per query exactly min(k, N) distinct index ids
\* in non-decreasing order of true distance, no id left out is strictly
\* closer than a returned one, and the scenario with k = 2 gives [0, 2].
C1_ExhaustiveExact ==
    (gt_nn.st = "ok" /\ k >= 1) =>
        /\ Len(gt_nn.value) = NumQueries
        /\ \A q \in DOMAIN gt_nn.value :
              LET row == gt_nn.value[q]
              IN /\ Len(row) = Min(k, NumVectors)
                 /\ SetOf(row) \subseteq 0..(NumVectors - 1)
                 /\ NoRepeat(row)
                 /\ Ascending(row, q)
                 /\ \A out \in (0..(NumVectors - 1)) \ SetOf(row) :
                       \A r \in SetOf(row) : TrueDist(out, q) >= TrueDist(r, q)
        /\ (Scenario /\ k = 2) => gt_nn.value = << <<0, 2>> >>

\* C1 witness: the scenario was searched with k = 2 and id 1, the far
\* vector, was left out.
C1_Witness ==
    /\ gt_nn.st = "ok"
    /\ Scenario
    /\ k = 2
    /\ gt_nn.value = << <<0, 2>> >>

\* The candidate set the search examined for query q.
Candidates(q) ==
    CandidateSet(query_vectors[q], index_vectors, hash_functions.value,
                 custom_index.value)

\* C2: for every query the candidate search returns at most k ids, and every
\* returned id is at most as far from the query as every candidate of that
\* query that was not returned.
C2_RerankWithinCandidates ==
    (custom_index_ann.st = "ok" /\ k >= 1) =>
        \A q \in DOMAIN custom_index_ann.value :
            LET row == custom_index_ann.value[q]
            IN /\ Len(row) <= k
               /\ SetOf(row) \subseteq Candidates(q)
               /\ \A out \in Candidates(q) \ SetOf(row) :
                     \A r \in SetOf(row) : TrueDist(r, q) <= TrueDist(out, q)

\* C2 witness: a search returned k ids for a query that had more than k
\* candidates, at different distances, so some candidate was excluded.
C2_Witness ==
    /\ custom_index_ann.st = "ok"
    /\ k >= 1
    /\ \E q \in DOMAIN custom_index_ann.value :
          /\ Cardinality(Candidates(q)) > k
          /\ Len(custom_index_ann.value[q]) = k
          /\ \E out \in Candidates(q) \ SetOf(custom_index_ann.value[q]) :
                TrueDist(out, q) > TrueDist(custom_index_ann.value[q][k], q)

\* The search call of this run has ended (returned or raised).
Searched == pc \in {"cell18", "done", "error"}

\* C3: a query whose candidate set is non-empty and smaller than k gets all
\* of its candidates, in ascending-distance order, not padded, and the call
\* raises no error, whatever the other queries of the batch return.
C3_FewerThanK ==
    (Searched /\ k >= 1
        /\ \E q \in DOMAIN query_vectors :
              Candidates(q) # {} /\ Cardinality(Candidates(q)) < k) =>
        /\ custom_index_ann.st = "ok"
        /\ \A q \in DOMAIN query_vectors :
              (Candidates(q) # {} /\ Cardinality(Candidates(q)) < k) =>
                 LET row == custom_index_ann.value[q]
                 IN /\ Len(row) = Cardinality(Candidates(q))
                    /\ SetOf(row) = Candidates(q)
                    /\ Ascending(row, q)

\* C4: a query whose signature matches no bucket in any table gets an empty
\* Result Set without an error, and compute_recall_at_k scores that query 0
\* without an error.
C4_EmptyCandidates ==
    (Searched /\ k >= 1
        /\ \E q \in DOMAIN query_vectors : Candidates(q) = {}) =>
        /\ custom_index_ann.st = "ok"
        /\ \A q \in DOMAIN query_vectors :
              Candidates(q) = {} =>
                 /\ custom_index_ann.value[q] = <<>>
                 /\ (pc = "done" /\ recall.ann = custom_index_ann.value) =>
                       (recall.st = "ok" /\ recall.inter[q] = 0)

\* n / d lies in [0, 1], for d # 0.
InUnit(n, d) == IF d > 0 THEN 0 <= n /\ n <= d ELSE d <= n /\ n <= 0

\* C5: for every pair of result batches and every k the evaluator accepts,
\* each recall_i = |approx[i] & truth[i]| / k lies in [0, 1], and so does
\* the returned score.
C5_RecallBounded ==
    recall.st = "ok" =>
        /\ \A i \in DOMAIN recall.inter : InUnit(recall.inter[i], recall.k)
        /\ 0 <= recall.score
        /\ recall.score <= 10^RoundDigits

\* The ground truth was scored against itself.
SelfRecall ==
    /\ gt_nn.st = "ok"
    /\ pc = "done"
    /\ recall.nn_gt = gt_nn.value
    /\ recall.ann = gt_nn.value

\* The score is exactly 1.0 and every query's recall_i is 1.
FullRecall ==
    /\ recall.st = "ok"
    /\ recall.score = 10^RoundDigits
    /\ \A i \in DOMAIN recall.inter : recall.inter[i] = recall.k

\* C6 as claimed: for every collection, query batch and k >= 1 the recall of
\* the exhaustive search against itself is exactly 1.0.
C6_SelfRecallAlways == (SelfRecall /\ k >= 1) => FullRecall

\* C6 amended: the recall of the exhaustive search against itself is exactly
\* 1.0, with recall_i = 1 for every query, when the batch holds at least one
\* query and 1 <= k <= N.
C6_SelfRecallWithinN ==
    (SelfRecall /\ k >= 1 /\ k <= NumVectors /\ NumQueries >= 1) => FullRecall

\* C6 witness: a batch of two queries was scored against itself with
\* 1 <= k <= N and got 1.0.
C6_Witness ==
    /\ SelfRecall
    /\ k >= 2
    /\ k <= NumVectors
    /\ NumQueries >= 2
    /\ recall.score = 10^RoundDigits

FamilyShape(f, h, d) ==
    /\ Len(hash_functions.value) = f
    /\ \A m \in DOMAIN hash_functions.value :
          /\ Len(hash_functions.value[m]) = h
          /\ \A r \in DOMAIN hash_functions.value[m] :
                Len(hash_functions.value[m][r]) = d

\* h = floor(d^(num/den)), stated by h^den <= d^num < (h+1)^den.
IsFloorPow(h, d, num, den) ==
    /\ ~BigLess(BigPow(d, num), BigPow(h, den))
    /\ BigLess(BigPow(d, num), BigPow(h + 1, den))

\* d is the fifth power of an integer.
FifthPower(d) == \E m \in 0..d : BigPow(m, 5) = BigPow(d, 1)

\* The family has the number of matrices the policy gives and rows h(dim).
PolicyShape ==
    /\ Len(hash_functions.value) = (IF dim < 150 THEN 7 ELSE 12)
    /\ \A m \in DOMAIN hash_functions.value :
          /\ \A r \in DOMAIN hash_functions.value[m] :
                Len(hash_functions.value[m][r]) = dim
          /\ IF dim < 150
             THEN IsFloorPow(Len(hash_functions.value[m]), dim, 13, 20)
             ELSE IsFloorPow(Len(hash_functions.value[m]), dim, 3, 5)

\* C8 as claimed: dim 100 gives 7 matrices of 21 rows and 100 columns, dim
\* 200 gives 12 matrices of 22 rows and 200 columns, and in general dim < 150
\* gives F = 7, H = floor(D^0.65) and dim >= 150 gives F = 12,
\* H = floor(D^0.6).
C8_ShapesAsClaimed ==
    (hash_functions.st = "ok" /\ dim >= 1) =>
        /\ dim = 100 => FamilyShape(7, 21, 100)
        /\ dim = 200 => FamilyShape(12, 22, 200)
        /\ PolicyShape

\* C8 amended: dim 100 gives 7 matrices of 19 rows and 100 columns, dim 200
\* gives 12 matrices of 24 rows and 200 columns; in general dim < 150 gives
\* F = 7, H = floor(D^0.65) and dim >= 150 gives F = 12, H = floor(D^0.6),
\* except that a perfect fifth power D >= 150 gets one row less (243 gives
\* 26).
C8_Shapes ==
    (hash_functions.st = "ok" /\ dim >= 1) =>
        /\ dim = 100 => FamilyShape(7, 19, 100)
        /\ dim = 200 => FamilyShape(12, 24, 200)
        /\ dim = 243 => FamilyShape(12, 26, 243)
        /\ ~(dim >= 150 /\ FifthPower(dim)) => PolicyShape

\* C8 witness: the generator returned 7 matrices of 19 x 100 for dim 100.
C8_Witness ==
    /\ hash_functions.st = "ok"
    /\ dim = 100
    /\ FamilyShape(7, 19, 100)

\* C9: a non-positive k fails at once with an error (the claim names it
\* InvalidArgument) in the exhaustive search, the candidate search and the
\* recall evaluator; no result is returned.  Stated for any error, so that
\* only a returned result refutes it.
C9_NonPositiveK ==
    k <= 0 =>
        /\ gt_nn.st # "unset" => gt_nn.st = "error"
        /\ custom_index_ann.st # "unset" => custom_index_ann.st = "error"
        /\ recall.st # "unset" => recall.st = "error"

\* C10: the generator called with dim <= 0 fails with an error (the claim
\* names it InvalidDimension) and returns no family, in particular no
\* family of empty matrices for dim = 0.  Stated for any error, so that only
\* a returned family refutes it.
C10_NonPositiveDim ==
    (dim <= 0 /\ hash_functions.st # "unset") => hash_functions.st = "error"

\* C11: compute_recall_at_k ends in an error whenever the two batches hold
\* different numbers of queries, whichever of them is the longer; it returns
\* no score computed over only part of a batch.
C11_ShapeMismatch ==
    (pc = "done" /\ Len(recall.nn_gt) # Len(recall.ann)) =>
        recall.st = "error"

\* The places (bucket key, position) of one table.
Places(table) ==
    UNION {{<<key, p>> : p \in DOMAIN table[key]} : key \in DOMAIN table}

\* Table `table`, kept under `function`, holds exactly the ids 0..n-1: each
\* once, in the bucket of its vector's signature, buckets ascending.
TableHolds(table, function, n) ==
    /\ \A pl \in Places(table) : table[pl[1]][pl[2]] \in 0..(n - 1)
    /\ \A i \in 0..(n - 1) :
          LET sig == hash_vector(index_vectors[i + 1], function)
          IN /\ sig \in DOMAIN table
             /\ i \in SetOf(table[sig])
             /\ Cardinality({pl \in Places(table) :
                                table[pl[1]][pl[2]] = i}) = 1
    /\ \A key \in DOMAIN table :
          \A p1, p2 \in DOMAIN table[key] :
              p1 < p2 => table[key][p1] < table[key][p2]

\* C12: the build returns exactly one table per hash function; in every
\* table each id 0..N-1 is filed exactly once, in the bucket keyed by its
\* vector's signature under that table's function, every bucket lists its ids
\* in strictly ascending order, and at every point of the build, after the
\* first build_i vectors, each table holds exactly the ids below build_i.
C12_TablesPartitionIds ==
    /\ pc = "build" =>
          /\ Len(hash_tables) = Len(hash_functions.value)
          /\ \A j \in DOMAIN hash_tables :
                TableHolds(hash_tables[j], hash_functions.value[j], build_i)
    /\ custom_index.st = "ok" =>
          /\ Len(custom_index.value) = Len(hash_functions.value)
          /\ \A j \in DOMAIN custom_index.value :
                TableHolds(custom_index.value[j], hash_functions.value[j],
                           NumVectors)

\* C12 witness: a build is part-way through a collection, one table has a
\* bucket of several ids and one table has several buckets, and an earlier
\* build of the same collection has returned its tables.
C12_Witness ==
    /\ pc = "build"
    /\ custom_index.st = "ok"
    /\ 1 < build_i
    /\ build_i < NumVectors
    /\ \E j \in DOMAIN hash_tables :
          \E key \in DOMAIN hash_tables[j] : Len(hash_tables[j][key]) > 1
    /\ \E j \in DOMAIN hash_tables : Cardinality(DOMAIN hash_tables[j]) > 1

\* Index vector id and query q have the same signature under function j.
Collide(id, q, j) ==
    hash_vector(index_vectors[id + 1], hash_functions.value[j])
        = hash_vector(query_vectors[q], hash_functions.value[j])

\* Table j of the index has a bucket under the signature of query q.
HasKey(q, j) ==
    hash_vector(query_vectors[q], hash_functions.value[j])
        \in DOMAIN custom_index.value[j]

\* C13: every id in a query's result is the id of an index vector whose
\* signature equals the query's under at least one hash function, and a
\* query whose signature is a key of no table gets no id at all: ids reach
\* the result only through a bucket under the query's own key.
C13_OnlyCollidingIds ==
    custom_index_ann.st = "ok" =>
        \A q \in DOMAIN custom_index_ann.value :
            LET row == custom_index_ann.value[q]
            IN /\ \A id \in SetOf(row) :
                     /\ id \in 0..(NumVectors - 1)
                     /\ \E j \in DOMAIN hash_functions.value :
                           HasKey(q, j) /\ Collide(id, q, j)
               /\ (\A j \in DOMAIN hash_functions.value : ~HasKey(q, j))
                     => row = <<>>

\* C13 witness: a query got ids although one table has no bucket under its
\* key, and an index vector that collides with it nowhere stayed out.
C13_Witness ==
    /\ custom_index_ann.st = "ok"
    /\ \E q \in DOMAIN custom_index_ann.value :
          /\ custom_index_ann.value[q] # <<>>
          /\ \E j \in DOMAIN hash_functions.value : ~HasKey(q, j)
          /\ \E id \in 0..(NumVectors - 1) :
                /\ id \notin SetOf(custom_index_ann.value[q])
                /\ \A j \in DOMAIN hash_functions.value : ~Collide(id, q, j)

\* The tables that hand id to query q.
Contributors(id, q) ==
    {j \in DOMAIN hash_functions.value : HasKey(q, j) /\ Collide(id, q, j)}

\* C15: an id that several tables contribute is counted once: no row of a
\* returned batch holds the same id twice.
C15_NoDuplicateIds ==
    custom_index_ann.st = "ok" =>
        \A q \in DOMAIN custom_index_ann.value :
            NoRepeat(custom_index_ann.value[q])

\* C15 witness: with room for a second copy (the row is shorter than k), a
\* returned id was contributed by more than one table and is listed once.
C15_Witness ==
    /\ custom_index_ann.st = "ok"
    /\ \E q \in DOMAIN custom_index_ann.value :
          LET row == custom_index_ann.value[q]
          IN /\ Len(row) < k
             /\ \E id \in SetOf(row) :
                   /\ Cardinality(Contributors(id, q)) > 1
                   /\ Cardinality({r \in DOMAIN row : row[r] = id}) = 1

\* The ids that occur both in row i of the approximate batch and in row i of
\* the ground truth the evaluator was given.
Common(i) ==
    {id \in SetOf(recall.ann[i]) :
        \E p \in DOMAIN recall.nn_gt[i] : recall.nn_gt[i][p] = id}

\* The sum of |Common(i)| over the first n queries of the approximate batch.
RECURSIVE CommonUpTo(_)
CommonUpTo(n) ==
    IF n = 0 THEN 0 ELSE CommonUpTo(n - 1) + Cardinality(Common(n))

\* The per-query values are |Common(i)| / k, one per query of the
\* approximate batch in its order.
PerQuerySetSemantics ==
    /\ DOMAIN recall.inter = DOMAIN recall.ann
    /\ \A i \in DOMAIN recall.ann : recall.inter[i] = Cardinality(Common(i))

\* C16 as claimed: the per-query value is |set(approx[i]) & set(truth[i])| / k
\* with set semantics, and the returned score is the mean of these values
\* over the queries of the approximate batch.
C16_ScoreIsMean ==
    (pc = "done" /\ recall.st = "ok") =>
        /\ PerQuerySetSemantics
        /\ recall.score * recall.k * Len(recall.ann)
               = 10^RoundDigits * CommonUpTo(Len(recall.ann))

\* C16: the per-query value is |set(approx[i]) & set(truth[i])| / k with set
\* semantics, and the returned score is the mean of these values over the
\* queries of the approximate batch rounded to three decimals: it differs
\* from the mean by at most 0.0005.
C16_ScoreIsRoundedMean ==
    (pc = "done" /\ recall.st = "ok") =>
        /\ PerQuerySetSemantics
        /\ LET den == recall.k * Len(recall.ann)
               diff == recall.score * den
                          - 10^RoundDigits * CommonUpTo(Len(recall.ann))
               absdiff == IF diff >= 0 THEN diff ELSE 0 - diff
               absden == IF den >= 0 THEN den ELSE 0 - den
           IN 2 * absdiff <= absden

\* C16 witness: a batch was scored with k = 3, a row of it repeats an id
\* that is also in the ground truth row, and the mean is not a multiple of
\* 0.001.
C16_Witness ==
    /\ pc = "done"
    /\ recall.st = "ok"
    /\ recall.k = 3
    /\ \E i \in DOMAIN recall.ann :
          \E p1, p2 \in DOMAIN recall.ann[i] :
              /\ p1 < p2
              /\ recall.ann[i][p1] = recall.ann[i][p2]
              /\ recall.ann[i][p1] \in Common(i)
    /\ recall.score * recall.k * Len(recall.ann)
           # 10^RoundDigits * CommonUpTo(Len(recall.ann))

\* How many ids of row are at true distance d from query q.
CountAt(row, q, d) ==
    Cardinality({r \in DOMAIN row : TrueDist(row[r], q) = d})

\* The two rows hold the same multiset of true distances from query q.
SameDistances(row1, row2, q) ==
    /\ Len(row1) = Len(row2)
    /\ \A r \in DOMAIN row1 :
          CountAt(row1, q, TrueDist(row1[r], q))
              = CountAt(row2, q, TrueDist(row1[r], q))

\* C17: for the same collection, query and k, the id at every position r of
\* the candidate search's row is at least as far from the query as the id at
\* position r of the exhaustive search's row, and when the candidate set is
\* the whole collection the two rows hold the same multiset of distances.
C17_NeverCloserThanExact ==
    (custom_index_ann.st = "ok" /\ gt_nn.st = "ok") =>
        \A q \in DOMAIN custom_index_ann.value :
            LET row == custom_index_ann.value[q]
                exact == gt_nn.value[q]
            IN /\ \A r \in DOMAIN row :
                     /\ r \in DOMAIN exact
                     /\ TrueDist(row[r], q) >= TrueDist(exact[r], q)
               /\ Candidates(q) = 0..(NumVectors - 1)
                     => SameDistances(row, exact, q)

\* C17 witness: in one batch a query whose candidates leave vectors out got
\* an id strictly farther than the exhaustive one at the same position, and a
\* query whose candidates are the whole collection of several vectors got a
\* row of fewer ids than the collection.
C17_Witness ==
    /\ custom_index_ann.st = "ok"
    /\ gt_nn.st = "ok"
    /\ \E q \in DOMAIN custom_index_ann.value :
          \E r \in DOMAIN custom_index_ann.value[q] :
              TrueDist(custom_index_ann.value[q][r], q)
                  > TrueDist(gt_nn.value[q][r], q)
    /\ \E q \in DOMAIN custom_index_ann.value :
          /\ Candidates(q) = 0..(NumVectors - 1)
          /\ custom_index_ann.value[q] # <<>>
          /\ Len(custom_index_ann.value[q]) < NumVectors

\* ------------------------------- a collection with a bucket beyond the cap

\* How many ids past max_candidates the crowded bucket holds.
Overflow == 1

\* A collection of MaxCandidatesLow + Overflow vectors: all but the last are
\* the same vector, so they share a bucket in every table, and the last one
\* shares that bucket in the tables whose projection does not tell the two
\* apart.  The queries are the last vector and the repeated one; seed 0 draws
\* a family of equal matrices, seed 1 one that tells the two vectors apart.
CrowdedIndex ==
    [i \in 1..(MaxCandidatesLow + Overflow) |->
        IF i <= MaxCandidatesLow THEN <<1, 2>> ELSE <<2, 1>>]

\* A collection of two vectors of DimThreshold components, the query being
\* the first of them: the search on the other side of the threshold.
WideIndex ==
    << [c \in 1..DimThreshold |-> 1],
       [c \in 1..DimThreshold |-> IF c = 1 THEN 1 ELSE -1] >>

CapCollections ==
    { [index |-> CrowdedIndex,
       query |-> << <<2, 1>>, <<1, 2>> >>, shape1 |-> 2],
      [index |-> WideIndex,
       query |-> << [c \in 1..DimThreshold |-> 1] >>,
       shape1 |-> DimThreshold] }

InitCap ==
    /\ \E ds \in CapCollections :
          /\ index_vectors = ds.index
          /\ query_vectors = ds.query
          /\ dim = ds.shape1
    /\ k \in {1, MaxK}
    /\ argsort_ties = "first"
    /\ np_ragged = "ValueError"
    /\ rng \in {0, 1}
    /\ hash_functions = Unset
    /\ gt_nn = Unset
    /\ hash_tables = <<>>
    /\ build_i = 0
    /\ custom_index = Unset
    /\ custom_index_ann = Unset
    /\ recall = NoRecall
    /\ prev_index = Unset
    /\ prev_ann = Unset
    /\ run = 0
    /\ pc = "cell14"

\* The cells run once, in order.
NextCap ==
    \/ Cell14
    \/ Cell15
    \/ BuildStart
    \/ BuildStep
    \/ BuildReturn
    \/ Cell17
    \/ Cell18

SpecCap == InitCap /\ [][NextCap]_vars

\* The cut-off C of the claim for the collection's dimension.
Cap == IF dim < DimThreshold THEN MaxCandidatesLow ELSE MaxCandidatesHigh

\* The bucket of table j under the signature of query q.
Bucket(q, j) ==
    custom_index.value[j][hash_vector(query_vectors[q],
                                      hash_functions.value[j])]

\* The first min(C, |bucket|) ids, in bucket order, of the bucket query q
\* matches in table j; nothing when the table has no such bucket.
FirstOfBucket(q, j) ==
    IF HasKey(q, j)
    THEN {Bucket(q, j)[p] : p \in 1..Min(Cap, Len(Bucket(q, j)))}
    ELSE {}

\* Id sits in the bucket query q matches in table j, past position C.
Beyond(id, q, j) ==
    /\ HasKey(q, j)
    /\ \E p \in (Cap + 1)..Len(Bucket(q, j)) : Bucket(q, j)[p] = id

SameAs(q) ==
    {i \in 0..(NumVectors - 1) : index_vectors[i + 1] = query_vectors[q]}

\* The ids among the first C of a bucket query q matches, over all tables.
Taken(q) ==
    UNION {FirstOfBucket(q, j) : j \in DOMAIN hash_functions.value}

\* C18: when a query equals index vector i and the index was built with the
\* family and the collection handed to the search, the query's signature is
\* a key of every table and i lies in each of those buckets; whenever i is
\* among the first C ids of its bucket in some table, the search returns a
\* non-empty row for the query whose first id is at true distance 0, and the
\* row is empty or lacks i only when i is past position C in every table.
C18_SelfQueryFound ==
    /\ custom_index.st = "ok" =>
          \A q \in DOMAIN query_vectors :
              \A j \in DOMAIN hash_functions.value :
                  SameAs(q) # {} =>
                      /\ HasKey(q, j)
                      /\ SameAs(q) \subseteq SetOf(Bucket(q, j))
    /\ (custom_index.st = "ok" /\ Searched) =>
          \A q \in DOMAIN query_vectors :
              \A i \in SameAs(q) \cap Taken(q) :
                  /\ custom_index_ann.st = "ok"
                  /\ custom_index_ann.value[q] # <<>>
                  /\ TrueDist(custom_index_ann.value[q][1], q) = 0
                  /\ i \in SetOf(custom_index_ann.value[q])

====
